---- MODULE Spec2Model ----
(***************************************************************************)
(* HiveServer2 result-set conversion helpers of be/src/service/hs2-util.cc *)
(* as a state machine: the packed null bitmap, the columnar (V6+) append   *)
(* entry points that accumulate rows into a thrift::TColumn, and the       *)
(* legacy (V1-V5) per-value conversion into a thrift::TColumnValue.        *)
(*                                                                         *)
(* Bytes of a std::string are numbers 0..255 (the bit pattern of the       *)
(* char); a text is a tuple of such bytes; C++ index i is TLA+ index i+1.  *)
(***************************************************************************)
EXTENDS Integers, Sequences, FiniteSets, TLC

\* ------------------------------------------------------------------ bounds

\* Rows of the source row batch under SpecBulk.
BatchLen == 9
\* Rows of the source row batch under Spec.
ShortLen == 3
\* Period of the null pattern of the source rows.
PatLen == 2
\* Rows a bitmap may cover under SpecBitmap.
MaxBits == 9
\* Rows the source bitmap of StitchNulls covers under SpecStitch.
SrcRows == 9

\* ----------------------------------------------------------- null bitmap

GetNullsRequiredSize(numVals) == (numVals + 7) \div 8

\* std::string::resize / std::vector::resize: cut to n elements, or pad with
\* value-initialised elements up to n.
Resize(s, n, fill) ==
  IF n <= Len(s) THEN SubSeq(s, 1, n)
  ELSE s \o [k \in 1..(n - Len(s)) |-> fill]

\* Variant: assign() in place of resize(), dropping the bytes already there.
SetNullsSize_Assign(new_size, nulls) ==
  [k \in 1..GetNullsRequiredSize(new_size) |-> 0]

\* Variant: new_size / 8 bytes, the + 7 forgotten.
SetNullsSize_Floor(new_size, nulls) ==
  Resize(nulls, new_size \div 8, 0)

SetNullsSize(new_size, nulls) ==
  Resize(nulls, GetNullsRequiredSize(new_size), 0)

\* byte |= (1 << mod_8) * is_null
\* Variant: the bit stored, cleared when is_null is false.
OrNullBit_Store(byte, mod_8, is_null) ==
  IF is_null = ((byte \div (2 ^ mod_8)) % 2 = 1) THEN byte
  ELSE IF is_null THEN byte + 2 ^ mod_8 ELSE byte - 2 ^ mod_8

OrNullBit(byte, mod_8, is_null) ==
  IF is_null /\ (byte \div (2 ^ mod_8)) % 2 = 0 THEN byte + 2 ^ mod_8 ELSE byte

\* DCHECK_LE(GetNullsRequiredSize(row_idx), nulls->size())
SetNullBitDCheck(row_idx, nulls) == GetNullsRequiredSize(row_idx) <= Len(nulls)

\* Variant: a byte appended on every call, the mod_8 test forgotten.
SetNullBit_GrowAlways(row_idx, is_null, nulls) ==
  [Append(nulls, 0) EXCEPT ![(row_idx \div 8) + 1] = OrNullBit(@, row_idx % 8, is_null)]

\* Variant: the bit ORed in place, no byte ever appended.
SetNullBit_NoGrow(row_idx, is_null, nulls) ==
  [nulls EXCEPT ![(row_idx \div 8) + 1] = OrNullBit(@, row_idx % 8, is_null)]

SetNullBit(row_idx, is_null, nulls) ==
  LET mod_8 == row_idx % 8
      grown == IF mod_8 = 0 THEN Append(nulls, 0) ELSE nulls
  IN  [grown EXCEPT ![(row_idx \div 8) + 1] = OrNullBit(@, mod_8, is_null)]

\* DCHECK_LE(GetNullsRequiredSize(row_idx+1), nulls->size())
NoResizeDCheck(row_idx, nulls) == GetNullsRequiredSize(row_idx + 1) <= Len(nulls)

\* Variant: the bit set for the rows that are not NULL.
SetNullBitNoResize_Inverted(row_idx, is_null, nulls) ==
  [nulls EXCEPT ![(row_idx \div 8) + 1] = OrNullBit(@, row_idx % 8, ~is_null)]

SetNullBitNoResize(row_idx, is_null, nulls) ==
  LET mod_8 == row_idx % 8
  IN  [nulls EXCEPT ![(row_idx \div 8) + 1] = OrNullBit(@, mod_8, is_null)]

\* Variant: the most significant bit of a byte taken as its bit 0.
GetNullBit_MsbFirst(nulls, row_idx) ==
  (nulls[(row_idx \div 8) + 1] \div (2 ^ (7 - (row_idx % 8)))) % 2 = 1

GetNullBit(nulls, row_idx) ==
  (nulls[(row_idx \div 8) + 1] \div (2 ^ (row_idx % 8))) % 2 = 1

RECURSIVE StitchLoop(_, _, _, _, _, _)
StitchLoop(i, num_rows_before, num_rows_added, start_idx, from, to) ==
  IF i < num_rows_added
  THEN StitchLoop(i + 1, num_rows_before, num_rows_added, start_idx, from,
                  SetNullBit(num_rows_before + i, GetNullBit(from, i + start_idx), to))
  ELSE to

\* Variant: the source read from its bit 0, start_idx ignored.
StitchNulls_FromZero(num_rows_before, num_rows_added, start_idx, from, to) ==
  StitchLoop(0, num_rows_before, num_rows_added, 0, from, to)

StitchNulls(num_rows_before, num_rows_added, start_idx, from, to) ==
  StitchLoop(0, num_rows_before, num_rows_added, start_idx, from, to)

\* ------------------------------------------------------ type descriptors

\* type.types[0].scalar_type: the TPrimitiveType tag, the CHAR length and, for
\* DECIMAL, what ColumnType::GetByteSize() answers and the scale ToString uses.
ScalarType(tag) == [type |-> tag, len |-> 0, byte_size |-> 0, scale |-> 0]

PlainTags ==
  {"NULL_TYPE", "BOOLEAN", "TINYINT", "SMALLINT", "INT", "BIGINT", "FLOAT",
   "DOUBLE", "TIMESTAMP", "STRING", "VARCHAR"}

TextTags == {"TIMESTAMP", "STRING", "CHAR", "VARCHAR", "DECIMAL"}

DecimalSizes == {4, 8, 16}

SupportedTypes ==
  {ScalarType(t) : t \in PlainTags}
    \cup {[type |-> "CHAR", len |-> 2, byte_size |-> 0, scale |-> 0]}
    \cup {[type |-> "DECIMAL", len |-> 0, byte_size |-> b, scale |-> 2] :
            b \in DecimalSizes}

\* A tag none of the switches handles, and a decimal of a width none of the
\* inner switches handles.
UnsupportedTypes ==
  {ScalarType("DATE"),
   [type |-> "DECIMAL", len |-> 0, byte_size |-> 2, scale |-> 2]}

Types == SupportedTypes \cup UnsupportedTypes

IsSupported(t) == t \in SupportedTypes

\* The member of thrift::TColumn a type's rows go to.
FamilyOf(t) ==
  CASE t.type \in {"NULL_TYPE", "BOOLEAN"} -> "boolVal"
    [] t.type = "TINYINT" -> "byteVal"
    [] t.type = "SMALLINT" -> "i16Val"
    [] t.type = "INT" -> "i32Val"
    [] t.type = "BIGINT" -> "i64Val"
    [] t.type \in {"FLOAT", "DOUBLE"} -> "doubleVal"
    [] t.type \in TextTags -> "stringVal"
    [] OTHER -> "none"

Families ==
  {"boolVal", "byteVal", "i16Val", "i32Val", "i64Val", "doubleVal", "stringVal"}

\* What resize() and static_cast<S>(0) put in a slot of a family's array.
ZeroOf(fam) ==
  CASE fam = "boolVal" -> FALSE
    [] fam = "stringVal" -> <<>>
    [] OTHER -> 0

\* ---------------------------------------------------- source values, texts

RECURSIVE Digits(_)
Digits(n) == IF n < 10 THEN <<48 + n>> ELSE Digits(n \div 10) \o <<48 + (n % 10)>>

RECURSIVE FracDigits(_, _)
FracDigits(n, width) ==
  IF width = 0 THEN <<>> ELSE FracDigits(n \div 10, width - 1) \o <<48 + (n % 10)>>

\* DecimalValue<T>::ToString(type): the unscaled value with the point 'scale'
\* digits from the right (12345 at scale 2 is "123.45").
DecimalToString(v, decimalType) ==
  LET d == 10 ^ decimalType.scale
  IN  Digits(v \div d) \o <<46>> \o FracDigits(v % d, decimalType.scale)

\* RawValue::PrintValue(value, TYPE_TIMESTAMP, -1, &str): the text of a
\* timestamp, assigned to str.
PrintValue(ts) == <<84, 48 + ts>>

\* std::string::assign(ptr, len): the first len bytes at ptr.
StringAssign(ptr, len) == SubSeq(ptr, 1, len)

\* StringValue::CharSlotToPtr(value, char_type): the bytes of the slot.
CharSlotToPtr(value, char_type) == value

\* What the expression evaluates to on row i of the batch when it is not NULL.
Payload(t, i) ==
  LET k == i % 3 IN
  CASE t.type \in {"NULL_TYPE", "BOOLEAN"} -> (k = 1)
    [] t.type \in {"STRING", "VARCHAR"} -> [ptr |-> <<97, 98, 99>>, len |-> k]
    [] t.type = "CHAR" -> <<97 + k, 32, 120>>
    [] t.type = "DECIMAL" -> (IF k = 0 THEN 0 ELSE IF k = 1 THEN 5 ELSE 12345)
    [] OTHER -> k

\* expr_ctx->GetValue(batch->GetRow(i)): NULL, or a pointer to the payload.
\* A NULL_TYPE expression is NULL on every row.
ExprValue(t, i, is_null) ==
  [null |-> is_null \/ t.type = "NULL_TYPE", v |-> Payload(t, i)]

\* The text a text-family value is presented as.
TextOf(t, v) ==
  CASE t.type = "TIMESTAMP" -> PrintValue(v)
    [] t.type \in {"STRING", "VARCHAR"} -> StringAssign(v.ptr, v.len)
    [] t.type = "CHAR" -> StringAssign(CharSlotToPtr(v, t), t.len)
    [] t.type = "DECIMAL" -> DecimalToString(v, t)
    [] OTHER -> <<>>

\* impala::TColumnValue: seven optional members, zero-initialised, with their
\* __isset flags.
TColumnValueDefault ==
  [isset |-> [bool_val |-> FALSE, byte_val |-> FALSE, short_val |-> FALSE,
              int_val |-> FALSE, long_val |-> FALSE, double_val |-> FALSE,
              string_val |-> FALSE],
   bool_val |-> FALSE, byte_val |-> 0, short_val |-> 0, int_val |-> 0,
   long_val |-> 0, double_val |-> 0, string_val |-> <<>>]

\* The member of impala::TColumnValue that carries a value of the type.
MemberOf(t) ==
  CASE t.type \in {"NULL_TYPE", "BOOLEAN"} -> "bool_val"
    [] t.type = "TINYINT" -> "byte_val"
    [] t.type = "SMALLINT" -> "short_val"
    [] t.type = "INT" -> "int_val"
    [] t.type = "BIGINT" -> "long_val"
    [] t.type \in {"FLOAT", "DOUBLE"} -> "double_val"
    [] t.type \in TextTags -> "string_val"
    [] OTHER -> "none"

\* The pre-decoded record of an expression value: the member of its type set
\* to the value (a text-family value already as text) when it is not NULL, and
\* nothing set when it is.
ToTColumnValue(t, value) ==
  IF value.null \/ MemberOf(t) = "none" THEN TColumnValueDefault
  ELSE [TColumnValueDefault EXCEPT
          !.isset[MemberOf(t)] = TRUE,
          ![MemberOf(t)] = IF t.type \in TextTags THEN TextOf(t, value.v)
                           ELSE value.v]

\* ----------------------------------------------------------------- column

\* A freshly constructed thrift::TColumn.
EmptyColumn == [f \in Families |-> [values |-> <<>>, nulls |-> <<>>]]

\* Variant: DCHECK(false) never noticed.
Outcome_NoDCheck(c, hit) == [column |-> c, dcheck |-> FALSE]

\* What a call leaves: the column, and whether it ran into DCHECK(false).
Outcome(c, hit) == [column |-> c, dcheck |-> hit]

\* --------------------------------------------- columnar (V6+) entry points

\* One pre-decoded value appended to its family's array, its bit at row_idx.
TColumnValueToHS2TColumn(col_val, type, row_idx, column) ==
  LET tag == type.type
      Put(fam, member) ==
        [column EXCEPT ![fam] =
           [values |-> Append(@.values, col_val[member]),
            nulls |-> SetNullBit(row_idx, ~col_val.isset[member], @.nulls)]]
  IN  CASE tag \in {"NULL_TYPE", "BOOLEAN"} -> Outcome(Put("boolVal", "bool_val"), FALSE)
        [] tag = "TINYINT" -> Outcome(Put("byteVal", "byte_val"), FALSE)
        [] tag = "SMALLINT" -> Outcome(Put("i16Val", "short_val"), FALSE)
        [] tag = "INT" -> Outcome(Put("i32Val", "int_val"), FALSE)
        [] tag = "BIGINT" -> Outcome(Put("i64Val", "long_val"), FALSE)
        [] tag \in {"FLOAT", "DOUBLE"} -> Outcome(Put("doubleVal", "double_val"), FALSE)
        [] tag \in {"TIMESTAMP", "STRING", "CHAR", "VARCHAR", "DECIMAL"} ->
             Outcome(Put("stringVal", "string_val"), FALSE)
        [] OTHER -> Outcome(column, TRUE)

\* The loop of one case of TColumnValuesToHS2TColumn: result[result_idx] =
\* value->member and SetNullBitNoResize(result_idx, value->__isset.member, nulls).
RECURSIVE TColumnValuesLoop(_, _, _, _, _, _, _)
TColumnValuesLoop(col_vals, member, i, source_end_idx, result_idx, result, nulls) ==
  IF i < source_end_idx
  THEN LET value == col_vals[i + 1]
       IN  TColumnValuesLoop(col_vals, member, i + 1, source_end_idx, result_idx + 1,
             [result EXCEPT ![result_idx + 1] = value[member]],
             SetNullBitNoResize(result_idx, value.isset[member], nulls))
  ELSE [values |-> result, nulls |-> nulls]

\* std::string::operator=(char) with an int64_t operand: the text of one
\* byte, the operand narrowed to char.
CharAssign(long_val) == <<long_val % 256>>

\* The loop of the text case: result[result_idx] = value->long_val on a text
\* array, the bit from __isset.long_val.
RECURSIVE TColumnValuesTextLoop(_, _, _, _, _, _)
TColumnValuesTextLoop(col_vals, i, source_end_idx, result_idx, result, nulls) ==
  IF i < source_end_idx
  THEN LET value == col_vals[i + 1]
       IN  TColumnValuesTextLoop(col_vals, i + 1, source_end_idx, result_idx + 1,
             [result EXCEPT ![result_idx + 1] = CharAssign(value.long_val)],
             SetNullBitNoResize(result_idx, value.isset.long_val, nulls))
  ELSE [values |-> result, nulls |-> nulls]

TColumnValuesToHS2TColumn(col_vals, type, src_start_idx, result_start_idx, num_vals, column) ==
  LET tag == type.type
      new_size == result_start_idx + num_vals
      source_end_idx == src_start_idx + num_vals
      Fill(fam, member) ==
        [column EXCEPT ![fam] =
           TColumnValuesLoop(col_vals, member, src_start_idx, source_end_idx,
             result_start_idx, Resize(@.values, new_size, ZeroOf(fam)),
             SetNullsSize(new_size, @.nulls))]
      text == TColumnValuesTextLoop(col_vals, src_start_idx, source_end_idx,
                result_start_idx, Resize(column.stringVal.values, new_size, <<>>),
                SetNullsSize(new_size, column.i64Val.nulls))
  IN  CASE tag \in {"NULL_TYPE", "BOOLEAN"} -> Outcome(Fill("boolVal", "bool_val"), FALSE)
        [] tag = "TINYINT" -> Outcome(Fill("byteVal", "byte_val"), FALSE)
        [] tag = "SMALLINT" -> Outcome(Fill("i16Val", "short_val"), FALSE)
        [] tag = "INT" -> Outcome(Fill("i32Val", "int_val"), FALSE)
        [] tag = "BIGINT" -> Outcome(Fill("i64Val", "long_val"), FALSE)
        [] tag \in {"FLOAT", "DOUBLE"} -> Outcome(Fill("doubleVal", "double_val"), FALSE)
        [] tag \in {"TIMESTAMP", "STRING", "CHAR", "VARCHAR", "DECIMAL"} ->
             Outcome([column EXCEPT !.stringVal.values = text.values,
                                    !.i64Val.nulls = text.nulls], FALSE)
        [] OTHER -> Outcome(column, TRUE)

\* The loops of the Add...Values helpers; batch[i + 1] is what
\* expr_ctx->GetValue(batch->GetRow(i)) returns.
RECURSIVE AddValuesLoop(_, _, _, _, _, _, _)
AddValuesLoop(batch, zero, i, source_end_idx, result_idx, result, nulls) ==
  IF i < source_end_idx
  THEN LET value == batch[i + 1]
       IN  AddValuesLoop(batch, zero, i + 1, source_end_idx, result_idx + 1,
             [result EXCEPT ![result_idx + 1] = IF value.null THEN zero ELSE value.v],
             SetNullBitNoResize(result_idx, value.null, nulls))
  ELSE [values |-> result, nulls |-> nulls]

\* AddValues<S, T>: zero is static_cast<S>(0); a float read into a double
\* array keeps its value.
AddValues(batch, zero, result, nulls, src_start_idx, result_start_idx, num_vals) ==
  LET new_size == result_start_idx + num_vals
      source_end_idx == src_start_idx + num_vals
  IN  AddValuesLoop(batch, zero, src_start_idx, source_end_idx, result_start_idx,
                    Resize(result, new_size, zero), SetNullsSize(new_size, nulls))

RECURSIVE AddDecimalValuesLoop(_, _, _, _, _, _, _)
AddDecimalValuesLoop(batch, decimalType, i, source_end_idx, result_idx, result, nulls) ==
  IF i < source_end_idx
  THEN LET value == batch[i + 1]
       IN  AddDecimalValuesLoop(batch, decimalType, i + 1, source_end_idx, result_idx + 1,
             [result EXCEPT ![result_idx + 1] =
                IF value.null THEN <<>> ELSE DecimalToString(value.v, decimalType)],
             SetNullBitNoResize(result_idx, value.null, nulls))
  ELSE [values |-> result, nulls |-> nulls]

AddDecimalValues(batch, result, decimalType, nulls, src_start_idx, result_start_idx, num_vals) ==
  LET new_size == result_start_idx + num_vals
      source_end_idx == src_start_idx + num_vals
  IN  AddDecimalValuesLoop(batch, decimalType, src_start_idx, source_end_idx,
                           result_start_idx, Resize(result, new_size, <<>>),
                           SetNullsSize(new_size, nulls))

\* A NULL row leaves result[result_idx] as resize() or an earlier call left it.
RECURSIVE AddTimestampValuesLoop(_, _, _, _, _, _)
AddTimestampValuesLoop(batch, i, source_end_idx, result_idx, result, nulls) ==
  IF i < source_end_idx
  THEN LET value == batch[i + 1]
       IN  AddTimestampValuesLoop(batch, i + 1, source_end_idx, result_idx + 1,
             IF value.null THEN result
             ELSE [result EXCEPT ![result_idx + 1] = PrintValue(value.v)],
             SetNullBitNoResize(result_idx, value.null, nulls))
  ELSE [values |-> result, nulls |-> nulls]

AddTimestampValues(batch, result, nulls, src_start_idx, result_start_idx, num_vals) ==
  LET new_size == result_start_idx + num_vals
      source_end_idx == src_start_idx + num_vals
  IN  AddTimestampValuesLoop(batch, src_start_idx, source_end_idx, result_start_idx,
                             Resize(result, new_size, <<>>),
                             SetNullsSize(new_size, nulls))

RECURSIVE AddStringValuesLoop(_, _, _, _, _, _)
AddStringValuesLoop(batch, i, source_end_idx, result_idx, result, nulls) ==
  IF i < source_end_idx
  THEN LET value == batch[i + 1]
       IN  AddStringValuesLoop(batch, i + 1, source_end_idx, result_idx + 1,
             IF value.null THEN result
             ELSE [result EXCEPT ![result_idx + 1] =
                     StringAssign(value.v.ptr, value.v.len)],
             SetNullBitNoResize(result_idx, value.null, nulls))
  ELSE [values |-> result, nulls |-> nulls]

AddStringValues(batch, result, nulls, src_start_idx, result_start_idx, num_vals) ==
  LET new_size == result_start_idx + num_vals
      source_end_idx == src_start_idx + num_vals
  IN  AddStringValuesLoop(batch, src_start_idx, source_end_idx, result_start_idx,
                          Resize(result, new_size, <<>>),
                          SetNullsSize(new_size, nulls))

RECURSIVE AddCharValuesLoop(_, _, _, _, _, _, _)
AddCharValuesLoop(batch, char_type, i, source_end_idx, result_idx, result, nulls) ==
  IF i < source_end_idx
  THEN LET value == batch[i + 1]
       IN  AddCharValuesLoop(batch, char_type, i + 1, source_end_idx, result_idx + 1,
             IF value.null THEN result
             ELSE [result EXCEPT ![result_idx + 1] =
                     StringAssign(CharSlotToPtr(value.v, char_type), char_type.len)],
             SetNullBitNoResize(result_idx, value.null, nulls))
  ELSE [values |-> result, nulls |-> nulls]

AddCharValues(batch, result, char_type, nulls, src_start_idx, result_start_idx, num_vals) ==
  LET new_size == result_start_idx + num_vals
      source_end_idx == src_start_idx + num_vals
  IN  AddCharValuesLoop(batch, char_type, src_start_idx, source_end_idx,
                        result_start_idx, Resize(result, new_size, <<>>),
                        SetNullsSize(new_size, nulls))

\* ColumnType::CreateCharType(len)
CreateCharType(len) == [type |-> "CHAR", len |-> len, byte_size |-> 0, scale |-> 0]

ExprValuesToHS2TColumn(rows, type, src_start_idx, result_start_idx, num_vals, column) ==
  LET tag == type.type
      Numeric(fam, zero) ==
        [column EXCEPT ![fam] =
           AddValues(rows, zero, @.values, @.nulls, src_start_idx,
                     result_start_idx, num_vals)]
  IN  CASE tag \in {"NULL_TYPE", "BOOLEAN"} -> Outcome(Numeric("boolVal", FALSE), FALSE)
        [] tag = "TINYINT" -> Outcome(Numeric("byteVal", 0), FALSE)
        [] tag = "SMALLINT" -> Outcome(Numeric("i16Val", 0), FALSE)
        [] tag = "INT" -> Outcome(Numeric("i32Val", 0), FALSE)
        [] tag = "BIGINT" -> Outcome(Numeric("i64Val", 0), FALSE)
        [] tag = "FLOAT" -> Outcome(Numeric("doubleVal", 0), FALSE)
        [] tag = "DOUBLE" -> Outcome(Numeric("doubleVal", 0), FALSE)
        [] tag = "TIMESTAMP" ->
             Outcome([column EXCEPT !.stringVal =
                        AddTimestampValues(rows, @.values, @.nulls, src_start_idx,
                                           result_start_idx, num_vals)], FALSE)
        [] tag \in {"STRING", "VARCHAR"} ->
             Outcome([column EXCEPT !.stringVal =
                        AddStringValues(rows, @.values, @.nulls, src_start_idx,
                                        result_start_idx, num_vals)], FALSE)
        [] tag = "CHAR" ->
             Outcome([column EXCEPT !.stringVal =
                        AddCharValues(rows, @.values, CreateCharType(type.len),
                                      @.nulls, src_start_idx, result_start_idx,
                                      num_vals)], FALSE)
        [] tag = "DECIMAL" ->
             IF type.byte_size \in {4, 8, 16}
             THEN Outcome([column EXCEPT !.stringVal =
                             AddDecimalValues(rows, @.values, type, @.nulls,
                                              src_start_idx, result_start_idx,
                                              num_vals)], FALSE)
             ELSE Outcome(column, TRUE)
        [] OTHER -> Outcome(column, TRUE)

\* One expression value appended to its family's array, its bit at row_idx.
\* A decimal of an unhandled width has its "" pushed before DCHECK(false):
\* a debug build stops there, a release build goes on to SetNullBit.
ExprValueToHS2TColumn(value, type, row_idx, column, debug) ==
  LET tag == type.type
      Put(fam, v) ==
        [column EXCEPT ![fam] =
           [values |-> Append(@.values, v),
            nulls |-> SetNullBit(row_idx, value.null, @.nulls)]]
      Numeric(fam, zero) == Put(fam, IF value.null THEN zero ELSE value.v)
  IN  CASE tag \in {"NULL_TYPE", "BOOLEAN"} -> Outcome(Numeric("boolVal", FALSE), FALSE)
        [] tag = "TINYINT" -> Outcome(Numeric("byteVal", 0), FALSE)
        [] tag = "SMALLINT" -> Outcome(Numeric("i16Val", 0), FALSE)
        [] tag = "INT" -> Outcome(Numeric("i32Val", 0), FALSE)
        [] tag = "BIGINT" -> Outcome(Numeric("i64Val", 0), FALSE)
        [] tag = "FLOAT" -> Outcome(Numeric("doubleVal", 0), FALSE)
        [] tag = "DOUBLE" -> Outcome(Numeric("doubleVal", 0), FALSE)
        [] tag = "TIMESTAMP" ->
             Outcome(Put("stringVal",
                         IF value.null THEN <<>> ELSE PrintValue(value.v)), FALSE)
        [] tag \in {"STRING", "VARCHAR"} ->
             Outcome(Put("stringVal",
                         IF value.null THEN <<>>
                         ELSE StringAssign(value.v.ptr, value.v.len)), FALSE)
        [] tag = "CHAR" ->
             Outcome(Put("stringVal",
                         IF value.null THEN <<>>
                         ELSE StringAssign(CharSlotToPtr(value.v, CreateCharType(type.len)),
                                           CreateCharType(type.len).len)), FALSE)
        [] tag = "DECIMAL" ->
             IF value.null
             THEN Outcome(Put("stringVal", <<>>), FALSE)
             ELSE IF type.byte_size \in {4, 8, 16}
             THEN Outcome(Put("stringVal", DecimalToString(value.v, type)), FALSE)
             ELSE IF debug
             THEN Outcome([column EXCEPT !.stringVal.values = Append(@, <<>>)], TRUE)
             ELSE Outcome(Put("stringVal", <<>>), TRUE)
        [] OTHER -> Outcome(column, TRUE)

\* ------------------------------------------- legacy (V1-V5) conversion

\* thrift::TColumnValue as constructed: no member selected, every member's
\* value zero and not set.
FreshHS2Value ==
  [isset |-> [m \in Families |-> FALSE],
   boolVal |-> [value |-> FALSE, isset |-> FALSE],
   byteVal |-> [value |-> 0, isset |-> FALSE],
   i16Val |-> [value |-> 0, isset |-> FALSE],
   i32Val |-> [value |-> 0, isset |-> FALSE],
   i64Val |-> [value |-> 0, isset |-> FALSE],
   doubleVal |-> [value |-> 0, isset |-> FALSE],
   stringVal |-> [value |-> <<>>, isset |-> FALSE]]

\* What a legacy conversion leaves: the record, and whether it ran into
\* DCHECK(false).
Converted(v, hit) == [value |-> v, dcheck |-> hit]

TColumnValueToHS2TColumnValue(col_val, type, hs2_val) ==
  LET tag == type.type
      Copy(m, member) ==
        [hs2_val EXCEPT !.isset[m] = TRUE,
                        ![m] = [value |-> col_val[member],
                                isset |-> col_val.isset[member]]]
  IN  CASE tag = "BOOLEAN" -> Converted(Copy("boolVal", "bool_val"), FALSE)
        [] tag = "TINYINT" -> Converted(Copy("byteVal", "byte_val"), FALSE)
        [] tag = "SMALLINT" -> Converted(Copy("i16Val", "short_val"), FALSE)
        [] tag = "INT" -> Converted(Copy("i32Val", "int_val"), FALSE)
        [] tag = "BIGINT" -> Converted(Copy("i64Val", "long_val"), FALSE)
        [] tag \in {"FLOAT", "DOUBLE"} -> Converted(Copy("doubleVal", "double_val"), FALSE)
        [] tag \in {"DECIMAL", "STRING", "TIMESTAMP", "VARCHAR", "CHAR"} ->
             Converted(
               [hs2_val EXCEPT
                  !.isset.stringVal = TRUE,
                  !.stringVal = [value |-> IF col_val.isset.string_val
                                           THEN col_val.string_val ELSE @.value,
                                 isset |-> col_val.isset.string_val]], FALSE)
        [] OTHER -> Converted(hs2_val, TRUE)

ExprValueToHS2TColumnValue(value, type, hs2_val) ==
  LET tag == type.type
      not_null == ~value.null
      Set(m, v) ==
        [hs2_val EXCEPT !.isset[m] = TRUE,
                        ![m] = [value |-> IF not_null THEN v ELSE @.value,
                                isset |-> not_null]]
  IN  CASE tag = "NULL_TYPE" ->
             Converted([hs2_val EXCEPT !.isset.boolVal = TRUE,
                                       !.boolVal.isset = FALSE], FALSE)
        [] tag = "BOOLEAN" -> Converted(Set("boolVal", value.v), FALSE)
        [] tag = "TINYINT" -> Converted(Set("byteVal", value.v), FALSE)
        [] tag = "SMALLINT" -> Converted(Set("i16Val", value.v), FALSE)
        [] tag = "INT" -> Converted(Set("i32Val", value.v), FALSE)
        [] tag = "BIGINT" -> Converted(Set("i64Val", value.v), FALSE)
        [] tag = "FLOAT" -> Converted(Set("doubleVal", value.v), FALSE)
        [] tag = "DOUBLE" -> Converted(Set("doubleVal", value.v), FALSE)
        [] tag \in {"STRING", "VARCHAR"} ->
             Converted(Set("stringVal", StringAssign(value.v.ptr, value.v.len)), FALSE)
        [] tag = "CHAR" ->
             Converted(Set("stringVal",
                           StringAssign(CharSlotToPtr(value.v, CreateCharType(type.len)),
                                        CreateCharType(type.len).len)), FALSE)
        [] tag = "TIMESTAMP" -> Converted(Set("stringVal", PrintValue(value.v)), FALSE)
        [] tag = "DECIMAL" ->
             IF type.byte_size \in {4, 8, 16}
             THEN Converted(Set("stringVal", DecimalToString(value.v, type)), FALSE)
             ELSE Converted([hs2_val EXCEPT !.isset.stringVal = TRUE,
                                            !.stringVal.isset = not_null],
                            not_null)
        [] OTHER -> Converted(hs2_val, TRUE)

\* ------------------------------------------------------------- printing

\* operator<< of an ostream for an integer, and for a double holding a whole
\* number: the decimal digits, a minus sign before a negative one.
StreamNumber(n) == IF n < 0 THEN <<45>> \o Digits(0 - n) ELSE Digits(n)

\* operator<< of an ostream for an int8_t: the one character with that code.
StreamChar(c) == <<c % 256>>

\* "NULL", "true", "false"
NullText == <<78, 85, 76, 76>>

TrueText == <<116, 114, 117, 101>>

FalseText == <<102, 97, 108, 115, 101>>

\* PrintVal<T>: (*ss) << val.value, or "NULL"; a string is written as it is.
PrintVal(val, is_string, ss) ==
  IF val.isset
  THEN ss \o (IF is_string THEN val.value ELSE StreamNumber(val.value))
  ELSE ss \o NullText

\* Variant: the byte written as the generic template writes it.
PrintVal_ByteAsChar(val, ss) ==
  IF val.isset THEN ss \o StreamChar(val.value) ELSE ss \o NullText

\* PrintVal<TByteValue>: the byte written as static_cast<int16_t>(val.value).
PrintValByte(val, ss) ==
  IF val.isset THEN ss \o StreamNumber(val.value) ELSE ss \o NullText

PrintTColumnValue(colval, ss) ==
  IF colval.isset.boolVal
  THEN IF colval.boolVal.isset
       THEN ss \o (IF colval.boolVal.value THEN TrueText ELSE FalseText)
       ELSE ss \o NullText
  ELSE IF colval.isset.doubleVal THEN PrintVal(colval.doubleVal, FALSE, ss)
  ELSE IF colval.isset.byteVal THEN PrintValByte(colval.byteVal, ss)
  ELSE IF colval.isset.i32Val THEN PrintVal(colval.i32Val, FALSE, ss)
  ELSE IF colval.isset.i16Val THEN PrintVal(colval.i16Val, FALSE, ss)
  ELSE IF colval.isset.i64Val THEN PrintVal(colval.i64Val, FALSE, ss)
  ELSE IF colval.isset.stringVal THEN PrintVal(colval.stringVal, TRUE, ss)
  ELSE ss \o NullText

\* ------------------------------------------------------------------ state

VARIABLES
  type,         \* the TColumnType of the result column
  batch,        \* what the expression evaluates to on each row of the batch
  column,       \* the thrift::TColumn the calls accumulate into
  fatal,        \* "none", or how a DCHECK(false) ended: "aborted" | "ignored"
  nulls,        \* a null bitmap on its own (the 'to' of StitchNulls)
  from,         \* the source bitmap of StitchNulls
  probe,        \* the writes seen at one bit index of nulls
  hs2_col_val,  \* the thrift::TColumnValue of the legacy conversion
  pre,          \* what the last call found in the object it changed
  call,         \* the last call and its arguments
  out           \* the characters written to the stringstream of the printer

vars == <<type, batch, column, fatal, nulls, from, probe, hs2_col_val, pre, call, out>>

NoCall == [op |-> "none", seq |-> 0]

\* Row i of the batch is NULL where the pattern says so.
Batches(t, len) ==
  {[i \in 1..len |-> ExprValue(t, i - 1, pat[(i - 1) % PatLen])] :
     pat \in [0..(PatLen - 1) -> BOOLEAN]}

\* The pre-decoded records of the rows of the batch.
ColVals == [i \in 1..Len(batch) |-> ToTColumnValue(type, batch[i])]

NoProbe == [idx |-> 0, written |-> FALSE, last |-> FALSE, any |-> FALSE, streamed |-> 0]

InitColumn(len) ==
  /\ type \in Types
  /\ batch \in Batches(type, len)
  /\ column = EmptyColumn
  /\ fatal = "none"
  /\ nulls = <<>>
  /\ from = <<>>
  /\ probe = NoProbe
  /\ hs2_col_val = FreshHS2Value
  /\ out = <<>>
  /\ pre = EmptyColumn
  /\ call = NoCall

Init == InitColumn(ShortLen)

\* Rows the column holds for the type: the length of its family's array.
NumRows == IF FamilyOf(type) = "none" THEN 0 ELSE Len(column[FamilyOf(type)].values)

\* The bitmap the single-value entry points hand to SetNullBit.
NullsOf(c) == IF FamilyOf(type) = "none" THEN <<>> ELSE c[FamilyOf(type)].nulls

\* A call ends: in a debug build DCHECK(false) aborts the process, in a
\* release build it is compiled out; a process that went past one is a
\* release build.
Return(res, debug, rec) ==
  /\ fatal # "aborted"
  /\ fatal = "ignored" => ~debug
  /\ column' = res.column
  /\ fatal' = IF res.dcheck THEN (IF debug THEN "aborted" ELSE "ignored") ELSE fatal
  /\ pre' = column
  /\ call' = rec
  /\ UNCHANGED <<out, type, batch, nulls, from, probe, hs2_col_val>>

CallRec(op, src, dst, n) ==
  [op |-> op, src |-> src, dst |-> dst, n |-> n, seq |-> call.seq + 1]

\* Source ranges inside the batch.
Ranges == {r \in (0..Len(batch)) \X (0..Len(batch)) : r[1] + r[2] <= Len(batch)}

DoTColumnValue ==
  /\ call.seq < 2
  /\ \E i \in 0..(Len(batch) - 1), row_idx \in {0, NumRows}, debug \in BOOLEAN :
       /\ SetNullBitDCheck(row_idx, NullsOf(column))
       /\ Return(TColumnValueToHS2TColumn(ColVals[i + 1], type, row_idx, column),
                 debug, CallRec("TColumnValueToHS2TColumn", i, row_idx, 1))

DoTColumnValues ==
  /\ call.seq < 2
  /\ \E r \in Ranges, result_start_idx \in {0, NumRows}, debug \in BOOLEAN :
       Return(TColumnValuesToHS2TColumn(ColVals, type, r[1], result_start_idx,
                                        r[2], column),
              debug, CallRec("TColumnValuesToHS2TColumn", r[1], result_start_idx, r[2]))

DoExprValue ==
  /\ call.seq < 2
  /\ \E i \in 0..(Len(batch) - 1), row_idx \in {0, NumRows}, debug \in BOOLEAN :
       /\ SetNullBitDCheck(row_idx, NullsOf(column))
       /\ Return(ExprValueToHS2TColumn(batch[i + 1], type, row_idx, column, debug),
                 debug, CallRec("ExprValueToHS2TColumn", i, row_idx, 1))

DoExprValues ==
  /\ call.seq < 2
  /\ \E r \in Ranges, result_start_idx \in {0, NumRows}, debug \in BOOLEAN :
       Return(ExprValuesToHS2TColumn(batch, type, r[1], result_start_idx, r[2],
                                     column),
              debug, CallRec("ExprValuesToHS2TColumn", r[1], result_start_idx, r[2]))

Next == DoTColumnValue \/ DoTColumnValues \/ DoExprValue \/ DoExprValues

Spec == Init /\ [][Next]_vars

\* Paginated emission: successive row ranges of the batch appended at the
\* column's end by the bulk entry point.
InitBulk == InitColumn(BatchLen)

AppendExprValues ==
  /\ call.seq < 2
  /\ \E r \in Ranges, debug \in BOOLEAN :
       Return(ExprValuesToHS2TColumn(batch, type, r[1], NumRows, r[2], column),
              debug, CallRec("ExprValuesToHS2TColumn", r[1], NumRows, r[2]))

NextBulk == AppendExprValues

SpecBulk == InitBulk /\ [][NextBulk]_vars

\* One value converted into a fresh thrift::TColumnValue by either legacy
\* converter.
ReturnLegacy(res, debug, rec) ==
  /\ call.seq < 1
  /\ hs2_col_val' = res.value
  /\ fatal' = IF res.dcheck THEN (IF debug THEN "aborted" ELSE "ignored") ELSE fatal
  /\ pre' = hs2_col_val
  /\ call' = rec
  /\ UNCHANGED <<out, type, batch, column, nulls, from, probe>>

DoLegacyTColumnValue ==
  \E i \in 0..(Len(batch) - 1), debug \in BOOLEAN :
    ReturnLegacy(TColumnValueToHS2TColumnValue(ColVals[i + 1], type, hs2_col_val),
                 debug, CallRec("TColumnValueToHS2TColumnValue", i, 0, 1))

DoLegacyExprValue ==
  \E i \in 0..(Len(batch) - 1), debug \in BOOLEAN :
    ReturnLegacy(ExprValueToHS2TColumnValue(batch[i + 1], type, hs2_col_val),
                 debug, CallRec("ExprValueToHS2TColumnValue", i, 0, 1))

InitLegacy ==
  /\ type \in Types
  /\ batch \in Batches(type, ShortLen)
  /\ column = EmptyColumn
  /\ fatal = "none"
  /\ nulls = <<>>
  /\ from = <<>>
  /\ probe = NoProbe
  /\ hs2_col_val = FreshHS2Value
  /\ out = <<>>
  /\ pre = FreshHS2Value
  /\ call = NoCall

NextLegacy == DoLegacyTColumnValue \/ DoLegacyExprValue

SpecLegacy == InitLegacy /\ [][NextLegacy]_vars

\* ------------------------------------------------- a null bitmap on its own

\* What the writes at bit probe.idx have been: whether there was one, the last
\* value written, whether TRUE was ever written; and the number of rows
\* appended so far with SetNullBit at row_idx 0, 1, 2, ... and nothing else
\* (-1 once anything else was done).
Probed(row_idx, is_null, in_order) ==
  [idx |-> probe.idx,
   written |-> probe.written \/ row_idx = probe.idx,
   last |-> IF row_idx = probe.idx THEN is_null ELSE probe.last,
   any |-> probe.any \/ (row_idx = probe.idx /\ is_null),
   streamed |-> IF in_order /\ probe.streamed = row_idx THEN row_idx + 1 ELSE -1]

InitBitmap ==
  /\ type = ScalarType("BOOLEAN")
  /\ batch = <<>>
  /\ column = EmptyColumn
  /\ fatal = "none"
  /\ nulls = <<>>
  /\ from = <<>>
  /\ probe \in {[NoProbe EXCEPT !.idx = i] : i \in 0..(MaxBits - 1)}
  /\ hs2_col_val = FreshHS2Value
  /\ out = <<>>
  /\ pre = <<>>
  /\ call = NoCall

\* The streaming appender, at any row_idx its DCHECK lets through.
WriteSetNullBit ==
  \E row_idx \in 0..(MaxBits - 1), is_null \in BOOLEAN :
    /\ SetNullBitDCheck(row_idx, nulls)
    /\ Len(SetNullBit(row_idx, is_null, nulls)) <= GetNullsRequiredSize(MaxBits)
    /\ nulls' = SetNullBit(row_idx, is_null, nulls)
    /\ probe' = Probed(row_idx, is_null, TRUE)
    /\ UNCHANGED <<out, type, batch, column, fatal, from, hs2_col_val, pre, call>>

\* The setter that does not resize, at any row_idx the bitmap covers.
WriteSetNullBitNoResize ==
  \E row_idx \in 0..(MaxBits - 1), is_null \in BOOLEAN :
    /\ NoResizeDCheck(row_idx, nulls)
    /\ nulls' = SetNullBitNoResize(row_idx, is_null, nulls)
    /\ probe' = Probed(row_idx, is_null, FALSE)
    /\ UNCHANGED <<out, type, batch, column, fatal, from, hs2_col_val, pre, call>>

\* The bitmap sized for more rows than it covers.
GrowNulls ==
  \E new_size \in 0..MaxBits :
    /\ Len(nulls) < GetNullsRequiredSize(new_size)
    /\ nulls' = SetNullsSize(new_size, nulls)
    /\ probe' = [probe EXCEPT !.streamed = -1]
    /\ UNCHANGED <<out, type, batch, column, fatal, from, hs2_col_val, pre, call>>

NextBitmap == WriteSetNullBit \/ WriteSetNullBitNoResize \/ GrowNulls

SpecBitmap == InitBitmap /\ [][NextBitmap]_vars

\* The bitmap that appending the flags one by one, in order, builds.
RECURSIVE Streamed(_)
Streamed(flags) ==
  IF flags = <<>> THEN <<>>
  ELSE SetNullBit(Len(flags) - 1, flags[Len(flags)],
                  Streamed(SubSeq(flags, 1, Len(flags) - 1)))

\* Source bitmaps of m rows: one row NULL, or all rows but one, or none, or all.
Sources(m) ==
  {Streamed([i \in 1..m |-> (i = k) = one]) : k \in 0..m, one \in BOOLEAN}

InitStitch ==
  /\ type = ScalarType("BOOLEAN")
  /\ batch = <<>>
  /\ column = EmptyColumn
  /\ fatal = "none"
  /\ nulls = <<>>
  /\ from \in Sources(SrcRows)
  /\ probe = NoProbe
  /\ hs2_col_val = FreshHS2Value
  /\ out = <<>>
  /\ pre = <<>>
  /\ call = [op |-> "none", seq |-> 0, rows |-> 0]

\* Rows [start_idx, start_idx + num_rows_added) of 'from' stitched to the end
\* of the rows 'nulls' holds.
DoStitchNulls ==
  /\ call.seq < 2
  /\ \E start_idx \in 0..SrcRows, num_rows_added \in 0..SrcRows :
       /\ start_idx + num_rows_added <= SrcRows
       /\ nulls' = StitchNulls(call.rows, num_rows_added, start_idx, from, nulls)
       /\ pre' = nulls
       /\ call' = [op |-> "StitchNulls", seq |-> call.seq + 1,
                   before |-> call.rows, added |-> num_rows_added,
                   start |-> start_idx, rows |-> call.rows + num_rows_added]
       /\ UNCHANGED <<out, type, batch, column, fatal, from, probe, hs2_col_val>>

NextStitch == DoStitchNulls

SpecStitch == InitStitch /\ [][NextStitch]_vars

\* ---------------------------------------------- two concurrent appends

\* Two threads, each inside one append call of a BIGINT expression into the
\* column it was handed. In this specification 'column' maps a buffer to its
\* thrift::TColumn and 'call' maps a thread to its call: the arguments, the
\* statement it is at, its loop variables, and whether it took a step while
\* the other thread was inside its call.
Threads == {1, 2}

\* Variant: both threads handed the same column.
Dest_Shared(t) == 1

\* The buffer the 'column' argument of thread t's call points to.
Dest(t) == t

ThreadCalls ==
  {[op |-> "ExprValuesToHS2TColumn", src |-> r[1], n |-> r[2], pc |-> "resize",
    i |-> r[1], result_idx |-> 0, overlapped |-> FALSE] :
     r \in {q \in (0..ShortLen) \X (0..ShortLen) : q[1] + q[2] <= ShortLen}}
  \cup
  {[op |-> "ExprValueToHS2TColumn", src |-> i, n |-> 1, pc |-> "push",
    i |-> i, result_idx |-> 0, overlapped |-> FALSE] : i \in 0..(ShortLen - 1)}

InitConc ==
  /\ type = ScalarType("BIGINT")
  /\ batch \in Batches(type, ShortLen)
  /\ column = [b \in Threads |-> EmptyColumn]
  /\ call \in [Threads -> ThreadCalls]
  /\ fatal = "none"
  /\ nulls = <<>>
  /\ from = <<>>
  /\ probe = NoProbe
  /\ hs2_col_val = FreshHS2Value
  /\ out = <<>>
  /\ pre = EmptyColumn

\* Thread t is between the first and the last statement of its call.
Inside(t) == call[t].pc \notin {"resize", "push", "done"}

\* Thread t executes one statement: its buffer's i64Val becomes val, its call
\* record moves on.
ThreadStep(t, val, pc, i, result_idx) ==
  /\ column' = [column EXCEPT ![Dest(t)].i64Val = val]
  /\ call' = [call EXCEPT ![t].pc = pc, ![t].i = i, ![t].result_idx = result_idx,
                          ![t].overlapped = @ \/ (\E u \in Threads \ {t} : Inside(u))]
  /\ UNCHANGED <<out, type, batch, fatal, nulls, from, probe, hs2_col_val, pre>>

\* AddValues: result.resize(new_size)
ConcResize(t) ==
  /\ call[t].pc = "resize"
  /\ LET c == column[Dest(t)].i64Val
     IN  ThreadStep(t, [c EXCEPT !.values = Resize(@, call[t].n, 0)],
                    "nulls", call[t].i, call[t].result_idx)

\* AddValues: SetNullsSize(new_size, nulls), then the loop's first test
ConcSetNullsSize(t) ==
  /\ call[t].pc = "nulls"
  /\ LET c == column[Dest(t)].i64Val
     IN  ThreadStep(t, [c EXCEPT !.nulls = SetNullsSize(call[t].n, @)],
                    IF call[t].n > 0 THEN "value" ELSE "done",
                    call[t].i, call[t].result_idx)

\* AddValues: result[result_idx] = (value == NULL ? 0 : *value)
ConcWriteValue(t) ==
  /\ call[t].pc = "value"
  /\ LET c == column[Dest(t)].i64Val
         value == batch[call[t].i + 1]
     IN  ThreadStep(t, [c EXCEPT !.values[call[t].result_idx + 1] =
                                   IF value.null THEN 0 ELSE value.v],
                    "bit", call[t].i, call[t].result_idx)

\* AddValues: SetNullBitNoResize(result_idx, value == NULL, nulls);
\* ++result_idx; ++i and the loop's test
ConcWriteBit(t) ==
  /\ call[t].pc = "bit"
  /\ LET c == column[Dest(t)].i64Val
         value == batch[call[t].i + 1]
     IN  ThreadStep(t, [c EXCEPT !.nulls =
                                   SetNullBitNoResize(call[t].result_idx, value.null, @)],
                    IF call[t].i + 1 < call[t].src + call[t].n THEN "value" ELSE "done",
                    call[t].i + 1, call[t].result_idx + 1)

\* ExprValueToHS2TColumn: column->i64Val.values.push_back(...)
ConcPush(t) ==
  /\ call[t].pc = "push"
  /\ LET c == column[Dest(t)].i64Val
         value == batch[call[t].i + 1]
     IN  ThreadStep(t, [c EXCEPT !.values =
                                   Append(@, IF value.null THEN 0 ELSE value.v)],
                    "setbit", call[t].i, call[t].result_idx)

\* ExprValueToHS2TColumn: SetNullBit(row_idx, value == NULL, nulls)
ConcSetNullBit(t) ==
  /\ call[t].pc = "setbit"
  /\ LET c == column[Dest(t)].i64Val
         value == batch[call[t].i + 1]
     IN  ThreadStep(t, [c EXCEPT !.nulls =
                                   SetNullBit(call[t].result_idx, value.null, @)],
                    "done", call[t].i, call[t].result_idx)

NextConc ==
  \E t \in Threads :
    \/ ConcResize(t)
    \/ ConcSetNullsSize(t)
    \/ ConcWriteValue(t)
    \/ ConcWriteBit(t)
    \/ ConcPush(t)
    \/ ConcSetNullBit(t)

SpecConc == InitConc /\ [][NextConc]_vars

\* ------------------------------------------------- printing one value

\* The thrift::TColumnValue records handed to the printer: any members
\* selected, any of them set, a byte that is a letter's code or negative, a
\* text that is "a" or "NULL".
PrintableValues ==
  {[isset |-> sel,
    boolVal |-> [value |-> b, isset |-> set.boolVal],
    byteVal |-> [value |-> y, isset |-> set.byteVal],
    i16Val |-> [value |-> 16, isset |-> set.i16Val],
    i32Val |-> [value |-> 32, isset |-> set.i32Val],
    i64Val |-> [value |-> 64, isset |-> set.i64Val],
    doubleVal |-> [value |-> 2, isset |-> set.doubleVal],
    stringVal |-> [value |-> t, isset |-> set.stringVal]] :
     sel \in [Families -> BOOLEAN], set \in [Families -> BOOLEAN],
     b \in BOOLEAN, y \in {65, 0 - 1}, t \in {<<97>>, NullText}}

InitPrint ==
  /\ type = ScalarType("BOOLEAN")
  /\ batch = <<>>
  /\ column = EmptyColumn
  /\ fatal = "none"
  /\ nulls = <<>>
  /\ from = <<>>
  /\ probe = NoProbe
  /\ hs2_col_val \in PrintableValues
  /\ out = <<>>
  /\ pre = FreshHS2Value
  /\ call = NoCall

DoPrintTColumnValue ==
  /\ call.seq < 1
  /\ out' = PrintTColumnValue(hs2_col_val, out)
  /\ call' = [op |-> "PrintTColumnValue", seq |-> call.seq + 1]
  /\ UNCHANGED <<type, batch, column, fatal, nulls, from, probe, hs2_col_val, pre>>

NextPrint == DoPrintTColumnValue

SpecPrint == InitPrint /\ [][NextPrint]_vars

\* ------------------------------------- streaming and bulk appends mixed

\* The rows of the batch emitted in order into one column, each call either
\* the single-value append of the next row or a bulk append of the next
\* num_vals rows, num_vals = 0 included, at the column's current row count.
\* The call record keeps which of the two kinds of call were made so far.
InitMixed ==
  /\ type \in SupportedTypes
  /\ batch \in Batches(type, BatchLen)
  /\ column = EmptyColumn
  /\ fatal = "none"
  /\ nulls = <<>>
  /\ from = <<>>
  /\ probe = NoProbe
  /\ hs2_col_val = FreshHS2Value
  /\ out = <<>>
  /\ pre = EmptyColumn
  /\ call = [op |-> "none", src |-> 0, dst |-> 0, n |-> 0,
             single |-> FALSE, bulk |-> FALSE]

MixedReturn(res, rec) ==
  /\ column' = res.column
  /\ fatal' = IF res.dcheck THEN "aborted" ELSE fatal
  /\ pre' = column
  /\ call' = rec
  /\ UNCHANGED <<out, type, batch, nulls, from, probe, hs2_col_val>>

StreamNextRow ==
  /\ fatal = "none"
  /\ NumRows < Len(batch)
  /\ SetNullBitDCheck(NumRows, NullsOf(column))
  /\ MixedReturn(ExprValueToHS2TColumn(batch[NumRows + 1], type, NumRows, column, TRUE),
                 [op |-> "ExprValueToHS2TColumn", src |-> NumRows, dst |-> NumRows,
                  n |-> 1, single |-> TRUE, bulk |-> call.bulk])

BulkNextRows ==
  /\ fatal = "none"
  /\ \E num_vals \in 0..(Len(batch) - NumRows) :
       MixedReturn(ExprValuesToHS2TColumn(batch, type, NumRows, NumRows, num_vals, column),
                   [op |-> "ExprValuesToHS2TColumn", src |-> NumRows, dst |-> NumRows,
                    n |-> num_vals, single |-> call.single, bulk |-> TRUE])

NextMixed == StreamNextRow \/ BulkNextRows

SpecMixed == InitMixed /\ [][NextMixed]_vars

\* ----------------------------------------------------------------- claims

\* ceil(x / 8)
Ceil8(x) == CHOOSE k \in 0..x : 8 * k >= x /\ 8 * k < x + 8

\* Bit i of a bitmap, the least significant bit of byte i / 8 being bit 0.
BitSet(bitmap, i) == (bitmap[(i \div 8) + 1] \div (2 ^ (i % 8))) % 2 = 1

\* A family's buffers hold exactly d rows: d values, ceil(d/8) bitmap bytes,
\* no bit set past row d.
HoldsRows(f, d) ==
  /\ Len(f.values) = d
  /\ Len(f.nulls) = Ceil8(d)
  /\ \A p \in d..(8 * Len(f.nulls) - 1) : ~BitSet(f.nulls, p)

LastWasBulkExpr == call.op = "ExprValuesToHS2TColumn" /\ IsSupported(type)

\* C1: a bulk append from the row batch, for a type of any family, any source
\* range [src, src+n) and a column holding exactly dst rows, leaves dst+n
\* values and ceil((dst+n)/8) bitmap bytes, bit dst+j set exactly when source
\* row src+j is NULL, no other bit at or past dst set, and the placeholder
\* (zero, false, empty text) in the value slot of every NULL row.
C1_BulkAppend ==
  (LastWasBulkExpr /\ HoldsRows(pre[FamilyOf(type)], call.dst)) =>
    LET f == column[FamilyOf(type)]
        d == call.dst
        n == call.n
    IN  /\ Len(f.values) = d + n
        /\ Len(f.nulls) = Ceil8(d + n)
        /\ \A j \in 0..(n - 1) :
             /\ BitSet(f.nulls, d + j) <=> batch[call.src + j + 1].null
             /\ batch[call.src + j + 1].null =>
                  f.values[d + j + 1] = ZeroOf(FamilyOf(type))
        /\ \A p \in (d + n)..(8 * Len(f.nulls) - 1) : ~BitSet(f.nulls, p)

\* C1's case: a text column of 5 rows gets 4 more, from source row 2 on, NULL
\* and non-NULL rows among them, the bitmap growing into its second byte.
C1_Witness ==
  /\ LastWasBulkExpr
  /\ type.type = "DECIMAL"
  /\ HoldsRows(pre.stringVal, 5)
  /\ call.dst = 5 /\ call.src = 2 /\ call.n = 4
  /\ batch[3].null /\ ~batch[4].null
  /\ Len(column.stringVal.nulls) = 2

\* The column one bulk append of rows [0, b) makes of an empty column.
OneShot(b) == ExprValuesToHS2TColumn(batch, type, 0, 0, b, EmptyColumn).column

\* The second of two bulk appends, of rows [a, b) at a, the first having
\* appended rows [0, a) to the empty column.
SecondChunk ==
  /\ LastWasBulkExpr
  /\ call.seq = 2
  /\ call.src = call.dst
  /\ pre = OneShot(call.dst)

\* C4: rows [0, a) and then rows [a, b) appended in two bulk calls give the
\* column one bulk call of rows [0, b) gives: b values, ceil(b/8) bitmap
\* bytes, and the rows of the first call as the first call left them.
C4_Chunked ==
  SecondChunk =>
    LET a == call.dst
        b == call.dst + call.n
        fam == FamilyOf(type)
    IN  /\ column = OneShot(b)
        /\ Len(column[fam].values) = b
        /\ Len(column[fam].nulls) = Ceil8(b)
        /\ \A i \in 0..(a - 1) :
             /\ column[fam].values[i + 1] = pre[fam].values[i + 1]
             /\ BitSet(column[fam].nulls, i) <=> BitSet(pre[fam].nulls, i)

\* C4's case: 3 rows, a NULL among them, then 6 more across the byte boundary.
C4_Witness ==
  /\ SecondChunk
  /\ call.dst = 3 /\ call.n = 6
  /\ batch[2].null
  /\ BitSet(column[FamilyOf(type)].nulls, 1)
  /\ Len(column[FamilyOf(type)].nulls) = 2

\* The first call on the empty column, from source row 0.
FirstCall(op) == call.op = op /\ call.seq = 1 /\ call.src = 0 /\ call.dst = 0

\* Single-row appends of the records of rows 0..n-1, at row_idx 0..n-1.
RECURSIVE SinglesOfRecords(_)
SinglesOfRecords(n) ==
  IF n = 0 THEN EmptyColumn
  ELSE TColumnValueToHS2TColumn(ColVals[n], type, n - 1, SinglesOfRecords(n - 1)).column

\* The last call was the n-th of such a run of single-row appends.
SinglesDone(n) ==
  /\ call.op = "TColumnValueToHS2TColumn"
  /\ call.seq = n /\ call.src = n - 1 /\ call.dst = n - 1
  /\ pre = SinglesOfRecords(n - 1)

BulkOfRecords(n) ==
  TColumnValuesToHS2TColumn(ColVals, type, 0, 0, n, EmptyColumn).column

\* A column of n rows whose bit i is set exactly when row i of the batch is NULL.
NullsMatch(c, n) ==
  LET f == c[FamilyOf(type)]
  IN  /\ Len(f.values) = n
      /\ Len(f.nulls) = Ceil8(n)
      /\ \A i \in 0..(n - 1) : BitSet(f.nulls, i) <=> batch[i + 1].null

\* C2: starting from an empty column, n single-row appends of the records of
\* rows 0..n-1, one bulk append of the same records and one bulk append from
\* the row batch give the same value arrays and the same bitmaps, bit i set
\* exactly when row i is NULL.
C2_SameDiscipline ==
  IsSupported(type) =>
    /\ \A n \in 1..2 :
         SinglesDone(n) =>
           /\ NullsMatch(column, n)
           /\ column = BulkOfRecords(n)
           /\ column = OneShot(n)
    /\ FirstCall("TColumnValuesToHS2TColumn") =>
         NullsMatch(column, call.n) /\ column = OneShot(call.n)
    /\ FirstCall("ExprValuesToHS2TColumn") =>
         NullsMatch(column, call.n) /\ column = BulkOfRecords(call.n)

\* The first call appended rows [0, n) to the empty column, by any of the four
\* columnar entry points (the single-row ones append one row).
AppendedFromEmpty ==
  /\ call.op # "none" /\ call.seq = 1 /\ call.src = 0 /\ call.dst = 0
  /\ IsSupported(type)

\* C3: for a text-family column every columnar entry point, the bulk append of
\* pre-decoded records too, puts the rows' texts in the text array and their
\* nullness in the text bitmap: after rows [0, n) the text array holds the n
\* texts (empty for NULL), the text bitmap has ceil(n/8) bytes, and the int64
\* array and bitmap are as they were.
C3_TextColumn ==
  (AppendedFromEmpty /\ type.type \in TextTags) =>
    /\ column.stringVal.values =
         [i \in 1..call.n |-> IF batch[i].null THEN <<>> ELSE TextOf(type, batch[i].v)]
    /\ Len(column.stringVal.nulls) = Ceil8(call.n)
    /\ column.i64Val = pre.i64Val

BulkOps == {"TColumnValuesToHS2TColumn", "ExprValuesToHS2TColumn"}

C6_StreamedLength ==
  probe.streamed >= 0 => Len(nulls) = Ceil8(probe.streamed)

\* C6's case: nine rows streamed, the ninth opening the second byte.
C6_Witness ==
  /\ probe.streamed = 9
  /\ Len(nulls) = 2
  /\ nulls[1] # 0

\* C7 as claimed: GetNullBit(i) is the last value written at i.
C7_LastWritten ==
  probe.written => (GetNullBit(nulls, probe.idx) <=> probe.last)

\* C7, amended: GetNullBit(i) is the disjunction of all the values written at
\* i: true exactly when some write at i, the last or an earlier one, wrote
\* true.
C7_AnyWritten ==
  probe.written => (GetNullBit(nulls, probe.idx) <=> probe.any)

\* C7's case: false written at a bit after true was; the bit reads true.
C7_Witness ==
  /\ probe.written /\ probe.any /\ ~probe.last
  /\ probe.idx = 8
  /\ GetNullBit(nulls, probe.idx)

\* C8: once true was written at bit i, GetNullBit(i) stays true whatever is
\* written later, to any index and to i itself, by either setter.
C8_NeverCleared ==
  probe.any => GetNullBit(nulls, probe.idx)

\* C8's case: the last write at the bit was false, after a true, and other
\* bits of its byte were written too.
C8_Witness ==
  /\ probe.any /\ ~probe.last
  /\ probe.idx = 3
  /\ GetNullBit(nulls, 3) /\ GetNullBit(nulls, 2) /\ ~GetNullBit(nulls, 4)
  /\ Len(nulls) = 2

\* C9: StitchNulls onto a bitmap holding exactly 'before' rows leaves
\* ceil((before + added) / 8) bytes, bit before + j equal to bit start + j of
\* the source for every j < added, and every bit below 'before' as it was.
C9_Stitch ==
  (call.op = "StitchNulls" /\ Len(pre) = Ceil8(call.before)) =>
    /\ Len(nulls) = Ceil8(call.before + call.added)
    /\ \A j \in 0..(call.added - 1) :
         GetNullBit(nulls, call.before + j) <=> GetNullBit(from, call.start + j)
    /\ \A i \in 0..(call.before - 1) :
         GetNullBit(nulls, i) <=> GetNullBit(pre, i)

\* C9's case: 6 rows held, NULLs among them; 4 more stitched from source bit
\* 5 on, across the byte boundary of source and of destination, the last of
\* them NULL and the one before it not.
C9_Witness ==
  /\ call.op = "StitchNulls" /\ call.seq = 2
  /\ call.before = 6 /\ call.start = 5 /\ call.added = 4
  /\ pre # <<0>>
  /\ GetNullBit(from, 8) /\ ~GetNullBit(from, 7)
  /\ GetNullBit(nulls, 9) /\ ~GetNullBit(nulls, 8)

\* C10: either legacy converter, on a fresh record and a value of any type of
\* the closed set, selects exactly the member of the type's family and marks
\* it set exactly when the value is not NULL.
C10_LegacyValue ==
  (call.op # "none" /\ IsSupported(type)) =>
    /\ \A m \in Families : hs2_col_val.isset[m] <=> (m = FamilyOf(type))
    /\ hs2_col_val[FamilyOf(type)].isset <=> ~batch[call.src + 1].null

\* The type tags the switches of the columnar entry points have a case for.
SupportedTags == PlainTags \cup {"CHAR", "DECIMAL"}

ColumnarOps ==
  {"TColumnValueToHS2TColumn", "TColumnValuesToHS2TColumn",
   "ExprValueToHS2TColumn", "ExprValuesToHS2TColumn"}

\* C11 as claimed: with a type tag outside the supported set every columnar
\* entry point ends in the fatal outcome and leaves the column as it was.
C11_UnsupportedFatal ==
  (call.op \in ColumnarOps /\ type.type \notin SupportedTags) =>
    /\ fatal = "aborted"
    /\ column = pre

\* C11, amended: with a type tag outside the supported set every columnar
\* entry point reaches DCHECK(false), which is fatal where DCHECKs are
\* compiled in and passed over where they are not, and in both cases the call
\* leaves every value array and every bitmap of the column as it was.
C11_UnsupportedUnchanged ==
  (call.op \in ColumnarOps /\ type.type \notin SupportedTags) =>
    /\ fatal \in {"aborted", "ignored"}
    /\ column = pre
    /\ column = EmptyColumn

\* C11's case: a second bulk append of two rows of an unsupported type, in a
\* build that passed over the first call's DCHECK(false).
C11_Witness ==
  /\ type.type = "DATE"
  /\ call.op = "ExprValuesToHS2TColumn" /\ call.seq = 2 /\ call.n = 2
  /\ fatal = "ignored"
  /\ column = EmptyColumn

\* The column is a decimal of a byte width the switches have no case for.
BadDecimalWidth == type.type = "DECIMAL" /\ type.byte_size \notin DecimalSizes

\* C12: for a decimal of a byte width other than 4, 8 or 16 and a present
\* value, the single-value append, the bulk append and the legacy converter
\* from expression values each end in the fatal outcome, with no row and no
\* bitmap byte added to the text column and no value marked present.
C12_BadDecimalFatal ==
  /\ ( /\ BadDecimalWidth
       /\ call.op \in {"ExprValueToHS2TColumn", "ExprValuesToHS2TColumn"}
       /\ \E i \in call.src..(call.src + call.n - 1) : ~batch[i + 1].null )
     => /\ fatal = "aborted"
        /\ Len(column.stringVal.values) = Len(pre.stringVal.values)
        /\ column.stringVal.nulls = pre.stringVal.nulls
  /\ ( /\ BadDecimalWidth
       /\ call.op = "ExprValueToHS2TColumnValue"
       /\ ~batch[call.src + 1].null )
     => /\ fatal = "aborted"
        /\ ~hs2_col_val.stringVal.isset

\* What thread t's call leaves in an empty column when it runs alone.
RunAlone(t) ==
  IF call[t].op = "ExprValuesToHS2TColumn"
  THEN ExprValuesToHS2TColumn(batch, type, call[t].src, 0, call[t].n, EmptyColumn).column
  ELSE ExprValueToHS2TColumn(batch[call[t].src + 1], type, 0, EmptyColumn, TRUE).column

\* C13: two append calls running on two different columns, their statements
\* interleaved in any way, each leave their column as the call leaves it
\* when it runs alone.
C13_DistinctBuffers ==
  \A t \in Threads : call[t].pc = "done" => column[t] = RunAlone(t)

\* C13's case: a bulk append of three rows and a single-value append of a
\* NULL, both finished, each having taken steps while the other was inside
\* its call.
C13_Witness ==
  /\ DOMAIN call = Threads
  /\ \A t \in Threads : call[t].pc = "done" /\ call[t].overlapped
  /\ call[1].op = "ExprValuesToHS2TColumn" /\ call[1].n = 3
  /\ call[2].op = "ExprValueToHS2TColumn" /\ batch[call[2].src + 1].null
  /\ column[1].i64Val.nulls # <<0>>
  /\ column[2].i64Val.nulls = <<1>>

\* The order in which the printer asks for the selected member.
PrintOrder ==
  <<"boolVal", "doubleVal", "byteVal", "i32Val", "i16Val", "i64Val", "stringVal">>

AnySelected == \E k \in 1..Len(PrintOrder) : hs2_col_val.isset[PrintOrder[k]]

\* The first selected member in that order.
Rendered ==
  PrintOrder[CHOOSE k \in 1..Len(PrintOrder) :
               /\ hs2_col_val.isset[PrintOrder[k]]
               /\ \A j \in 1..(k - 1) : ~hs2_col_val.isset[PrintOrder[j]]]

\* No member is selected, or the first selected one is not set.
NothingToRender == ~AnySelected \/ ~hs2_col_val[Rendered].isset

\* What is written for a member that is set.
RenderingOf(m) ==
  LET v == hs2_col_val[m].value
  IN  CASE m = "boolVal" -> (IF v THEN TrueText ELSE FalseText)
        [] m = "stringVal" -> v
        [] OTHER -> (IF v < 0 THEN <<45>> ELSE <<>>)
                    \o (IF v < 0 THEN Digits(0 - v) ELSE Digits(v))

\* C14 as claimed: the printer renders the first selected member in the order
\* boolean, double, byte, int32, int16, int64, text; what it writes is NULL
\* exactly when no member is selected or that member is not set; a boolean
\* that is set is written as true or false and a byte as its decimal number.
C14_NullExactly ==
  call.op = "PrintTColumnValue" =>
    /\ (out = NullText) <=> NothingToRender
    /\ ~NothingToRender => out = RenderingOf(Rendered)

\* C14, amended: the printer renders the first selected member in that order;
\* it writes NULL when no member is selected or that member is not set, and
\* otherwise the member's value: true or false for a boolean, the decimal
\* number for a byte and the other numbers, the text itself for a text, so
\* that of the values that are set only a text equal to NULL is written as
\* NULL.
C14_Printed ==
  call.op = "PrintTColumnValue" =>
    /\ NothingToRender => out = NullText
    /\ ~NothingToRender => out = RenderingOf(Rendered)
    /\ (out = NullText /\ ~NothingToRender) =>
         (Rendered = "stringVal" /\ hs2_col_val.stringVal.value = NullText)

\* C14's case: boolean and double not selected, byte 65 selected and set with
\* later members selected too: "65" is written.
C14_Witness ==
  /\ call.op = "PrintTColumnValue"
  /\ ~hs2_col_val.isset.boolVal /\ ~hs2_col_val.isset.doubleVal
  /\ hs2_col_val.isset.byteVal /\ hs2_col_val.isset.i32Val
  /\ hs2_col_val.isset.stringVal
  /\ hs2_col_val.byteVal.isset /\ hs2_col_val.byteVal.value = 65
  /\ ~hs2_col_val.i32Val.isset
  /\ out = <<54, 53>>

\* Rows appended so far by the calls of the mixed emission.
RowsAppended == call.dst + call.n

\* C15: after any sequence of single-value appends at the current row count
\* and bulk appends at the current row count, of any count >= 0, in any
\* order from the empty column, the value array holds the r rows appended,
\* the bitmap has ceil(r/8) bytes, bit i is set exactly when row i is NULL
\* for i < r, and every bit from r on is zero.
C15_Mixed ==
  LET f == FamilyOf(type)
      r == RowsAppended
  IN  /\ fatal = "none"
      /\ Len(column[f].values) = r
      /\ Len(column[f].nulls) = Ceil8(r)
      /\ \A i \in 0..(r - 1) : BitSet(column[f].nulls, i) <=> batch[i + 1].null
      /\ \A i \in r..(8 * Len(column[f].nulls) - 1) : ~BitSet(column[f].nulls, i)
      /\ \A g \in Families \ {f} : column[g] = EmptyColumn[g]

\* C15's case: the ninth row, a NULL, streamed onto a column whose first
\* eight rows, NULLs among them, a bulk append wrote; it opens the second byte.
C15_Witness ==
  /\ call.op = "ExprValueToHS2TColumn" /\ call.dst = 8
  /\ call.single /\ call.bulk
  /\ Len(pre[FamilyOf(type)].nulls) = 1
  /\ pre[FamilyOf(type)].nulls # <<0>>
  /\ column[FamilyOf(type)].nulls[2] = 1
  /\ type.type = "STRING"

====
